---- MODULE Spec2Model ----
(***************************************************************************)
(* A model of MockoonServer (src/src/libs/server.ts): the request          *)
(* pipeline, the route handlers with their per-route counters, the CORS    *)
(* preflight handler, the catch-all proxy, the live refresh of the         *)
(* Environment, stop(), and the header merger (setHeaders) on its three    *)
(* target shapes.                                                          *)
(*                                                                         *)
(* Specifications:                                                         *)
(*   Spec         the server, requests served one at a time                *)
(*   SpecOverlap  the server, two requests in flight                       *)
(*   SpecRefresh  refreshEnvironment as a function of the held environment *)
(*   SpecHeaders  the header merger as a function of a header list and a   *)
(*                target                                                   *)
(*   SpecUrl      deduplicateSlashes as a function of the request URL      *)
(*   SpecBody     the server, requests with a body of every content type   *)
(*   SpecRoutes   start() and serving, for every list of routes            *)
(*   SpecLive     the server, live refreshes that edit, move and add       *)
(*                routes                                                   *)
(***************************************************************************)
EXTENDS Integers, Sequences, FiniteSets, TLC

(***************************************************************************)
(* Bounds of the model                                                     *)
(***************************************************************************)
\* the largest counter value a route handler hands to the selector, when
\* requests are served one at a time
MaxDispatch == 4
\* the same, when two requests are in flight at the same time
MaxOverlapDispatch == 2
\* requests whose client disconnects before the response is sent
MaxAborts == 1
\* entries of a header list handed to setHeaders in SpecHeaders
MaxHeaders == 2
\* calls of stop()
MaxStops == 1
\* characters of a request URL in SpecUrl
MaxUrl == 5
\* the largest counter value a route handler hands to the selector in
\* SpecBody
MaxBodyDispatch == 2
\* routes of an environment in SpecRoutes
MaxRoutes == 3
\* the largest counter value a route handler hands to the selector in
\* SpecLive
MaxLiveDispatch == 2
\* the largest counter value a route handler hands to the selector in
\* SpecRoutes
MaxRouteDispatch == 1

(***************************************************************************)
(* Header keys and values                                                  *)
(***************************************************************************)
\* the header keys a configuration may hold: empty, two spellings of two
\* names, and a key with a character no header name may hold
Keys == {"", "Content-Type", "content-type", "X-A", "x-a", "bad key"}

\* the keys a target can hold: those above that are valid, the key of the
\* default CORS header and the key the file branch of a route handler sets
StoreKeys ==
  {"Content-Type", "content-type", "X-A", "x-a",
   "Access-Control-Allow-Origin", "access-control-allow-origin",
   "Content-Disposition", "content-disposition"}

\* String.prototype.toLowerCase on the keys above
toLowerCase(k) ==
  CASE k = "Content-Type" -> "content-type"
    [] k = "X-A" -> "x-a"
    [] k = "Access-Control-Allow-Origin" -> "access-control-allow-origin"
    [] k = "Content-Disposition" -> "content-disposition"
    [] OTHER -> k

\* TestHeaderValidity of @mockoon/commons: TRUE when the name holds a
\* character outside the header-name alphabet
TestHeaderValidity(k) == k = "bad key"

\* configured header values: empty, a literal, a template
Values == {"", "a", "{{t}}"}

TemplateError == "TemplateError"
HEADER_PARSING_ERROR == "HEADER_PARSING_ERROR"

\* what TemplateParser may produce for a value: a literal renders to itself,
\* a template renders to some text (the empty text included) or throws
RenderOutcomes(v) ==
  IF v = "{{t}}" THEN {"r", "", TemplateError} ELSE {v}

Null == "null"

\* ParseHeaderGuard without its test of the value
ParseHeaderGuardNoValue(header) ==
  header.key # "" /\ ~TestHeaderValidity(header.key)

\* the guard of parseHeader: the template engine is invoked only inside it
ParseHeaderGuard(header) ==
  header.key # "" /\ header.value # "" /\ ~TestHeaderValidity(header.key)

\* parseHeader: `entry` is a header with the outcome `out` the template
\* engine has for its value
parseHeader(entry) ==
  IF ParseHeaderGuard(entry)
  THEN IF entry.out = TemplateError THEN HEADER_PARSING_ERROR ELSE entry.out
  ELSE Null

(***************************************************************************)
(* Header targets.  A header value is a sequence: <<>> absent, one element *)
(* a string, more an array.                                                *)
(***************************************************************************)
NoEntry == [name |-> "", vals |-> <<>>]

EmptyStore == [k \in StoreKeys |-> NoEntry]

\* JavaScript truthiness of a header value: undefined and '' are falsy
Truthy(vals) == vals # <<>> /\ vals # <<"">>

appendHeaderValue(currentValue, newValue) ==
  IF Truthy(currentValue) THEN currentValue \o <<newValue>> ELSE <<newValue>>

\* OutgoingMessage.getHeader / setHeader: the name is matched in lower case
\* and kept as last given
getHeader(store, key) == store[toLowerCase(key)].vals

setHeader(store, key, vals) ==
  [store EXCEPT ![toLowerCase(key)] = [name |-> key, vals |-> vals]]

\* express Response.set and Response.append
ResponseSet(store, key, value) == setHeader(store, key, <<value>>)

ResponseAppend(store, key, value) ==
  setHeader(store, key, appendHeaderValue(getHeader(store, key), value))

\* one iteration of the forEach of setHeaders
ApplyHeader(target, entry) ==
  LET parsedHeaderValue == parseHeader(entry) IN
  IF parsedHeaderValue = Null THEN target
  ELSE CASE target.shape = "response" ->
              [target EXCEPT !.headers =
                 IF toLowerCase(entry.key) = "content-type"
                 THEN ResponseSet(@, entry.key, parsedHeaderValue)
                 ELSE ResponseAppend(@, entry.key, parsedHeaderValue)]
         [] target.shape = "proxyReq" ->
              [target EXCEPT !.headers =
                 setHeader(@, entry.key,
                           appendHeaderValue(getHeader(@, entry.key),
                                             parsedHeaderValue))]
         [] OTHER ->
              [target EXCEPT !.headers[entry.key] =
                 [name |-> entry.key,
                  vals |-> appendHeaderValue(@.vals, parsedHeaderValue)]]

RECURSIVE setHeaders(_, _)
setHeaders(entries, target) ==
  IF entries = <<>> THEN target
  ELSE setHeaders(Tail(entries), ApplyHeader(target, Head(entries)))

\* the number of entries of a list the template engine is invoked for
RECURSIVE TemplateCalls(_)
TemplateCalls(entries) ==
  IF entries = <<>> THEN 0
  ELSE (IF ParseHeaderGuard(Head(entries)) THEN 1 ELSE 0)
       + TemplateCalls(Tail(entries))

\* the number of Content-Type values a target holds
CTCount(target) ==
  Len(target.headers["content-type"].vals)
  + Len(target.headers["Content-Type"].vals)

(***************************************************************************)
(* Texts, error codes and data of the environment                          *)
(***************************************************************************)
ROUTE_NO_LONGER_EXISTS == <<"ROUTE_NO_LONGER_EXISTS">>
PROXY_ERROR == "PROXY_ERROR"
ROUTE_SERVING_ERROR == "ROUTE_SERVING_ERROR"
ROUTE_FILE_SERVING_ERROR == "ROUTE_FILE_SERVING_ERROR"
REQUEST_BODY_PARSE == "REQUEST_BODY_PARSE"
ROUTE_CREATION_ERROR == "ROUTE_CREATION_ERROR"
ROUTE_CREATION_ERROR_REGEX == "ROUTE_CREATION_ERROR_REGEX"
BINARY_BODY == <<"BINARY_BODY">>

\* the default CORS headers of @mockoon/commons (one of them is kept)
CORSHeaders == <<[key |-> "Access-Control-Allow-Origin", value |-> "*"]>>

\* the HTTP methods express has a registration function for
Methods == {"get", "post", "options"}

\* IsValidURL of @mockoon/commons on the proxy hosts of the model
IsValidURL(host) == host \in {"http://h1", "http://h2"}

\* a URL is a sequence of characters
UrlA == <<"/", "a">>
UrlB == <<"/", "b">>
UrlC == <<"/", "c">>
UrlCC == <<"/", "/", "c">>

\* String.prototype.replace(/\/{2,}/g, '/')
RECURSIVE ReplaceSlashRuns(_)
ReplaceSlashRuns(s) ==
  IF Len(s) <= 1 THEN s
  ELSE IF s[1] = "/" /\ s[2] = "/" THEN ReplaceSlashRuns(Tail(s))
  ELSE <<s[1]>> \o ReplaceSlashRuns(Tail(s))

\* String.prototype.replace(/ /g, '%20')
RECURSIVE ReplaceSpaces(_)
ReplaceSpaces(s) ==
  IF s = <<>> THEN <<>>
  ELSE (IF s[1] = " " THEN <<"%", "2", "0">> ELSE <<s[1]>>)
       \o ReplaceSpaces(Tail(s))

\* the path of a URL: what precedes the query string
RECURSIVE PathOf(_)
PathOf(s) ==
  IF s = <<>> \/ s[1] = "?" THEN <<>> ELSE <<s[1]>> \o PathOf(Tail(s))

\* route responses
Resp(id, code, body) ==
  [uuid |-> id, statusCode |-> code, headers |-> <<>>, body |-> body,
   filePath |-> "", sendFileAsBody |-> FALSE, disableTemplating |-> FALSE]

RespBody0 == Resp("p0", 200, "a")
RespBody1 == Resp("p1", 201, "{{t}}")
RespFile ==
  [Resp("p2", 202, "") EXCEPT
     !.filePath = "f.txt",
     !.headers = <<[key |-> "X-A", value |-> "a"]>>]

\* a header value Node refuses: setHeader throws ERR_INVALID_CHAR on a line
\* break (and on any character outside latin1)
LineBreak == "a\nb"

InvalidHeaderValue(v) == v = LineBreak

RespBadHeader ==
  [Resp("p3", 203, "a") EXCEPT
     !.headers = <<[key |-> "X-A", value |-> LineBreak]>>]

\* routes
RouteA(responses) ==
  [uuid |-> "r1", method |-> "options", endpoint |-> <<"/", "a">>,
   enabled |-> TRUE,
   randomResponse |-> FALSE, sequentialResponse |-> TRUE,
   responses |-> responses]

RouteGet ==
  [uuid |-> "r2", method |-> "get", endpoint |-> <<"b">>,
   enabled |-> TRUE, randomResponse |-> TRUE, sequentialResponse |-> FALSE,
   responses |-> <<RespBody0>>]

RouteDisabled ==
  [uuid |-> "r3", method |-> "get", endpoint |-> <<"c">>, enabled |-> FALSE,
   randomResponse |-> FALSE, sequentialResponse |-> FALSE,
   responses |-> <<RespBody0>>]

RouteBadPattern ==
  [uuid |-> "r4", method |-> "get", endpoint |-> <<"(">>, enabled |-> TRUE,
   randomResponse |-> FALSE, sequentialResponse |-> FALSE,
   responses |-> <<RespBody0>>]

\* a route whose method express has no registration function for
RouteBadMethod ==
  [uuid |-> "r5", method |-> "fetch", endpoint |-> <<"d">>, enabled |-> TRUE,
   randomResponse |-> FALSE, sequentialResponse |-> FALSE,
   responses |-> <<RespBody0>>]

\* environments
BaseEnv ==
  [uuid |-> "e1", cors |-> TRUE, proxyMode |-> TRUE,
   proxyHost |-> "http://h1", endpointPrefix |-> <<>>,
   proxyRemovePrefix |-> FALSE,
   headers |-> <<[key |-> "Content-Type", value |-> "application/json"]>>,
   proxyReqHeaders |-> <<[key |-> "X-A", value |-> "a"]>>,
   proxyResHeaders |-> <<[key |-> "X-A", value |-> "a"]>>,
   routes |-> <<RouteA(<<RespBody1, RespFile>>), RouteBadPattern,
                RouteGet, RouteDisabled>>]

\* the environments and options a server is constructed with
Construct(env, refresh) ==
  [environment |-> env, options |-> [refreshEnvironmentFunction |-> refresh]]

Constructions ==
  {Construct(BaseEnv, TRUE),
   Construct(BaseEnv, FALSE),
   Construct([BaseEnv EXCEPT !.cors = FALSE], TRUE),
   Construct([BaseEnv EXCEPT !.proxyMode = FALSE], FALSE),
   Construct([BaseEnv EXCEPT !.uuid = ""], TRUE)}

\* the environments the refresh function may return
EnvNoId == [BaseEnv EXCEPT !.uuid = "", !.routes = <<>>]

EnvChanged ==
  [BaseEnv EXCEPT !.routes = <<RouteGet>>,
                  !.cors = FALSE, !.proxyHost = "http://h2",
                  !.headers = <<[key |-> "Access-Control-Allow-Origin",
                                 value |-> "a"]>>]

EnvMoreResponses ==
  [BaseEnv EXCEPT !.routes =
     <<RouteA(<<RespBadHeader, RespBody1, RespFile>>), RouteGet>>]

EnvBadHeader ==
  [BaseEnv EXCEPT !.headers = <<[key |-> "X-A", value |-> LineBreak]>>]

RefreshEnvs == {BaseEnv, EnvNoId, EnvChanged, EnvMoreResponses, EnvBadHeader}

\* a route that only a refreshed environment declares
RouteNew ==
  [uuid |-> "r6", method |-> "get", endpoint |-> <<"n">>, enabled |-> TRUE,
   randomResponse |-> FALSE, sequentialResponse |-> FALSE,
   responses |-> <<RespBody0>>]

\* the route of RouteA after an edit: disabled, another method, another
\* endpoint, another response
RouteAMoved ==
  [RouteA(<<RespBody0>>) EXCEPT !.enabled = FALSE, !.method = "get",
                                !.endpoint = <<"e">>]

\* an environment the refresh function returns, with the edited route and
\* the new one
EnvMoved == [BaseEnv EXCEPT !.routes = <<RouteAMoved, RouteNew>>]

\* the same, without identifier
EnvMovedNoId == [EnvMoved EXCEPT !.uuid = ""]

LiveEnvs == {EnvMoved, EnvMovedNoId}

NoEnv == [undefined |-> TRUE]
NotCalled == [notCalled |-> TRUE]

\* the requests that arrive
ReqKinds ==
  {[method |-> "options", url |-> UrlA, contentType |-> "", body |-> ""],
   [method |-> "options", url |-> UrlC, contentType |-> "", body |-> ""],
   [method |-> "post", url |-> UrlCC, contentType |-> "application/json",
    body |-> "{bad"]}

\* the requests that arrive when the model follows two requests
OverlapKinds ==
  {k \in ReqKinds : k.method = "options"}
    \cup {[method |-> "get", url |-> UrlB, contentType |-> "", body |-> ""]}

\* the requests of SpecLive: the paths of the routes declared at start and
\* of those a refreshed environment declares
LiveKinds ==
  {[method |-> "options", url |-> UrlA, contentType |-> "", body |-> ""]}
    \cup {[method |-> "get", url |-> u, contentType |-> "", body |-> ""] :
            u \in {UrlB, <<"/", "e">>, <<"/", "n">>}}

\* JSON.parse succeeds on the bodies of the model that are JSON texts
JsonParses(body) == body = "{}"

\* the content types that include 'application/json'
JsonTypes == {"application/json", "application/json; charset=utf-8"}

\* the content types that include 'application/x-www-form-urlencoded'
FormTypes == {"application/x-www-form-urlencoded"}

\* a parseBody that decodes JSON whatever the content type
DecodesJsonAlways(requestContentType) == TRUE

\* requestContentType && requestContentType.includes('application/json')
DecodesJson(requestContentType) ==
  requestContentType # "" /\ requestContentType \in JsonTypes

\* else if requestContentType.includes('application/x-www-form-urlencoded')
DecodesForm(requestContentType) ==
  /\ requestContentType # ""
  /\ ~DecodesJson(requestContentType)
  /\ requestContentType \in FormTypes

\* the requests with a body: a path no route matches, every content type of
\* the model, a body that is a JSON text and one that is not
BodyKinds ==
  {[method |-> "post", url |-> UrlC, contentType |-> t, body |-> b] :
     t \in JsonTypes \cup FormTypes \cup {"", "text/plain"},
     b \in {"{}", "{bad"}}
    \cup {k \in ReqKinds : k.url = UrlA}

(***************************************************************************)
(* State                                                                   *)
(***************************************************************************)
VARIABLES
  lifecycle,      \* "constructed", "starting", "listening", "failed",
                  \* "stopping", "stopped", "crashed"
  options,        \* [refreshEnvironmentFunction |-> BOOLEAN]
  environment,    \* this.environment
  startEnv,       \* the environment start() read
  handlers,       \* the route handlers registered by setRoutes, in order
  requestNumber,  \* the counter each route handler closes over
  corsRegistered, \* whether setCors registered the OPTIONS /* handler
  proxyTarget,    \* the target of the proxy middleware, or NoProxy
  emitted,        \* the events emitted outside any request, in order
  slots,          \* the requests in flight, one per slot
  dispatched,     \* per handler: the requests that reached the selector
  aborts,         \* the requests whose connection ended before a response
  limits,         \* [inFlight, dispatch, keep, aborts, kinds, envs,
                  \* busyStops]: the bounds of the run
  stops,          \* [calls, pending]: the calls of stop(), and the kill
                  \* callbacks that have not run yet
  rBefore,        \* SpecRefresh: the environment held before the last call
  rRet,           \* SpecRefresh: what the refresh function returned last
  hPc,            \* SpecHeaders: "off", "ready", "done"
  hEntries,       \* SpecHeaders: the header list
  hBefore,        \* SpecHeaders: the target before setHeaders
  hTarget,        \* SpecHeaders: the target
  hCalls,         \* SpecHeaders: the calls of the template engine
  uPc,            \* SpecUrl: "off", "ready", "done"
  uIn,            \* SpecUrl: request.url before deduplicateSlashes
  uOut            \* SpecUrl: request.url after it

serverVars ==
  <<lifecycle, options, environment, startEnv, handlers, requestNumber,
    corsRegistered, proxyTarget, emitted, slots, dispatched, aborts, limits,
    stops>>

headerVars == <<hPc, hEntries, hBefore, hTarget, hCalls>>

refreshVars == <<rBefore, rRet>>

urlVars == <<uPc, uIn, uOut>>

vars == <<serverVars, headerVars, refreshVars, urlVars>>

NoProxy == "no proxy"
NoRoute == [undefined |-> TRUE]
NoSel == [none |-> TRUE]
NoStatus == 0
NoBody == <<>>

\* the model follows at most two requests at a time
Slots == {1, 2}

\* a slot no request holds: a response as express creates it
IdleSlot ==
  [pc |-> "idle", method |-> "", url |-> <<>>, originalUrl |-> <<>>,
   contentType |-> "", reqBody |-> "", rawBody |-> FALSE,
   bodyText |-> NoBody, bodyJSON |-> FALSE, bodyForm |-> FALSE,
   proxied |-> FALSE,
   hook |-> FALSE, closed |-> FALSE, sent |-> FALSE, events |-> <<>>,
   statusCode |-> 200, headers |-> EmptyStore, body |-> NoBody,
   by |-> "none", at |-> NoSel, sel |-> NoSel, late |-> FALSE,
   held |-> NoEnv, read |-> NoEnv, later |-> FALSE, passed |-> FALSE,
   resp |-> NoRoute, corsNow |-> FALSE,
   proxyReqHeaders |-> EmptyStore, proxyResHeaders |-> EmptyStore]

(***************************************************************************)
(* Live refresh                                                            *)
(***************************************************************************)
\* whether refreshEnvironment calls the refresh function
RefreshCalls(env) == options.refreshEnvironmentFunction /\ env.uuid # ""

\* refreshEnvironment that takes whatever the function returns
refreshEnvironmentAlways(env, updatedEnvironment) ==
  IF RefreshCalls(env) THEN updatedEnvironment ELSE env

\* refreshEnvironment: the held environment after the call, `updatedEnvironment`
\* being what the refresh function returns
refreshEnvironment(env, updatedEnvironment) ==
  IF RefreshCalls(env)
  THEN IF updatedEnvironment # NoEnv THEN updatedEnvironment ELSE env
  ELSE env

\* what a call of the refresh function may return; NotCalled when
\* refreshEnvironment does not call it
RefreshReturns(env) ==
  IF RefreshCalls(env) THEN limits.envs \cup {NoEnv} ELSE {NotCalled}

\* Array.prototype.find by uuid
FindRoute(routes, uuid) ==
  LET found == {i \in 1..Len(routes) : routes[i].uuid = uuid} IN
  IF found = {} THEN NoRoute
  ELSE routes[CHOOSE i \in found : \A j \in found : i <= j]

\* getRefreshedRoute that never looks the route up
getRefreshedRouteDeclared(env, currentRoute) == currentRoute

\* getRefreshedRoute, on the held environment
getRefreshedRoute(env, currentRoute) ==
  IF RefreshCalls(env) THEN FindRoute(env.routes, currentRoute.uuid)
  ELSE currentRoute

(***************************************************************************)
(* Response selector                                                       *)
(***************************************************************************)
\* ResponseRulesInterpreter.chooseResponse(requestNumber): the indexes
\* (from 0) it may return.  The sequential policy cycles through the
\* responses from the first one; the number is the ordinal of the request,
\* 1 for the first, so the count of the requests before it is taken modulo
\* the number of responses.  Rules are evaluated outside this model: a
\* rule-based or random route may select any response.
chooseResponse(route, number) ==
  IF route.sequentialResponse
  THEN {(number - 1) % Len(route.responses)}
  ELSE 0..(Len(route.responses) - 1)

\* a counter that stays where it is
NextRequestNumberStuck(n) == n

\* requestNumber += 1
NextRequestNumber(n) == n + 1

\* the starting value of the counter of a route handler
FirstRequestNumber == 1

(***************************************************************************)
(* Error responder                                                         *)
(***************************************************************************)
\* sendError that adds its Content-Type to the one the response holds
sendErrorAppend(s, errorMessage, status) ==
  [s EXCEPT !.headers = ResponseAppend(@, "Content-Type", "text/plain"),
            !.body = errorMessage,
            !.statusCode = IF status # NoStatus THEN status ELSE @,
            !.sent = TRUE]

\* sendError on the response a slot holds
sendError(s, errorMessage, status) ==
  [s EXCEPT !.headers = ResponseSet(@, "Content-Type", "text/plain"),
            !.body = errorMessage,
            !.statusCode = IF status # NoStatus THEN status ELSE @,
            !.sent = TRUE]

\* EventEmitter.emit('error', code, error) while a request is served
EmitError(s, code) == [s EXCEPT !.events = Append(@, <<"error", code>>)]

\* a header list with the outcome of the template engine for each value,
\* for lists of literal values
RECURSIVE Rendered(_)
Rendered(headers) ==
  IF headers = <<>> THEN <<>>
  ELSE <<[key |-> Head(headers).key, value |-> Head(headers).value,
          out |-> CHOOSE o \in RenderOutcomes(Head(headers).value) : TRUE]>>
       \o Rendered(Tail(headers))

\* setHeaders on the response of a slot
SetResponseHeaders(s, headers) ==
  [s EXCEPT !.headers =
     setHeaders(Rendered(headers), [shape |-> "response", headers |-> @]).headers]

\* setHeaders on a response throws: express hands a value Node refuses to
\* setHeader
Throws(headers) ==
  \E i \in 1..Len(headers) :
    /\ ParseHeaderGuard(Rendered(headers)[i])
    /\ InvalidHeaderValue(parseHeader(Rendered(headers)[i]))

\* the headers setHeaders applies before it throws
BeforeThrow(headers) ==
  IF Throws(headers)
  THEN SubSeq(headers, 1,
              (CHOOSE i \in 1..Len(headers) :
                 /\ InvalidHeaderValue(parseHeader(Rendered(headers)[i]))
                 /\ ParseHeaderGuard(Rendered(headers)[i])
                 /\ \A j \in 1..(i - 1) :
                      ~(/\ ParseHeaderGuard(Rendered(headers)[j])
                        /\ InvalidHeaderValue(parseHeader(Rendered(headers)[j]))))
              - 1)
  ELSE headers

\* errorHandler: express hands it what a middleware or a handler threw
errorHandler(s, error) ==
  [sendError(s, error, 500) EXCEPT !.pc = "done", !.by = "errorHandler"]

\* what Node throws on an invalid header value
ERR_INVALID_CHAR == <<"ERR_INVALID_CHAR">>

(***************************************************************************)
(* start()                                                                 *)
(***************************************************************************)
\* the path a route is registered at
RoutePath(env, declaredRoute) ==
  ReplaceSlashRuns(<<"/">> \o env.endpointPrefix \o <<"/">>
                   \o ReplaceSpaces(declaredRoute.endpoint))

\* path-to-regexp throws 'Invalid regular expression' on such a path
InvalidPattern(path) == \E i \in 1..Len(path) : path[i] = "("

\* a setRoutes whose try encloses the whole loop: the first failure ends
\* the registration
RECURSIVE setRoutesAbort(_, _)
setRoutesAbort(env, i) ==
  IF i > Len(env.routes) THEN [handlers |-> <<>>, errors |-> <<>>]
  ELSE LET declaredRoute == env.routes[i]
           rest == setRoutesAbort(env, i + 1)
           routePath == RoutePath(env, declaredRoute)
       IN IF ~declaredRoute.enabled THEN rest
          ELSE IF declaredRoute.method \notin Methods
          THEN [handlers |-> <<>>,
                errors |-> <<<<"error", ROUTE_CREATION_ERROR>>>>]
          ELSE IF InvalidPattern(routePath)
          THEN [handlers |-> <<>>,
                errors |-> <<<<"error", ROUTE_CREATION_ERROR_REGEX>>>>]
          ELSE [rest EXCEPT
                  !.handlers = <<[method |-> declaredRoute.method,
                                  path |-> routePath,
                                  route |-> declaredRoute]>> \o @]

\* setRoutes: the handlers registered and the error events emitted, for the
\* routes from index i on
RECURSIVE setRoutes(_, _)
setRoutes(env, i) ==
  IF i > Len(env.routes) THEN [handlers |-> <<>>, errors |-> <<>>]
  ELSE LET declaredRoute == env.routes[i]
           rest == setRoutes(env, i + 1)
           routePath == RoutePath(env, declaredRoute)
       IN IF ~declaredRoute.enabled THEN rest
          ELSE IF declaredRoute.method \notin Methods
          THEN [rest EXCEPT
                  !.errors = <<<<"error", ROUTE_CREATION_ERROR>>>> \o @]
          ELSE IF InvalidPattern(routePath)
          THEN [rest EXCEPT
                  !.errors = <<<<"error", ROUTE_CREATION_ERROR_REGEX>>>> \o @]
          ELSE [rest EXCEPT
                  !.handlers = <<[method |-> declaredRoute.method,
                                  path |-> routePath,
                                  route |-> declaredRoute]>> \o @]

\* setCors that registers the preflight handler whatever the flag
setCorsAlways(env) == TRUE

\* the condition under which setCors registers the preflight handler
setCors(env) == env.cors

\* the condition of enableProxy
ProxyEnabled(env) ==
  env.proxyMode /\ env.proxyHost # "" /\ IsValidURL(env.proxyHost)

Start ==
  /\ lifecycle = "constructed"
  /\ lifecycle' = "starting"
  /\ LET registered == setRoutes(environment, 1) IN
       /\ handlers' = registered.handlers
       /\ requestNumber' =
            [h \in 1..Len(registered.handlers) |-> FirstRequestNumber]
       /\ dispatched' = [h \in 1..Len(registered.handlers) |-> 0]
       /\ emitted' = emitted \o registered.errors
                     \o (IF ProxyEnabled(environment)
                         THEN <<<<"creating-proxy">>>> ELSE <<>>)
  /\ corsRegistered' = setCors(environment)
  /\ startEnv' = environment
  /\ proxyTarget' = IF ProxyEnabled(environment)
                    THEN environment.proxyHost ELSE NoProxy
  /\ UNCHANGED <<options, environment, slots, aborts>>
  /\ UNCHANGED <<limits, stops, headerVars, refreshVars, urlVars>>

\* the callback of listen
Listening ==
  /\ lifecycle = "starting"
  /\ lifecycle' = "listening"
  /\ emitted' = Append(emitted, <<"started">>)
  /\ UNCHANGED <<options, environment, startEnv, handlers, requestNumber,
                 corsRegistered, proxyTarget, slots, dispatched,
                 aborts>>
  /\ UNCHANGED <<limits, stops, headerVars, refreshVars, urlVars>>

\* the 'error' event of the server instance
ServerError(code) ==
  /\ lifecycle = "starting"
  /\ lifecycle' = "failed"
  /\ emitted' = Append(emitted, <<"error", code>>)
  /\ UNCHANGED <<options, environment, startEnv, handlers, requestNumber,
                 corsRegistered, proxyTarget, slots, dispatched,
                 aborts>>
  /\ UNCHANGED <<limits, stops, headerVars, refreshVars, urlVars>>

ServerErrorCodes == {"PORT_ALREADY_USED", "PORT_INVALID", "UNKNOWN_SERVER_ERROR"}

(***************************************************************************)
(* The pipeline                                                            *)
(***************************************************************************)
\* a request that is answered and whose response closed is over
Over(s) == s.pc = "done" /\ s.closed

Free(s) == s.pc = "idle" \/ Over(s)

\* the process runs: no exception has escaped from a callback
Alive == lifecycle # "crashed"

\* stop() has killed the server instance
Killed == lifecycle \in {"stopping", "stopped"}

\* deduplicateSlashes
deduplicateSlashes(url) == ReplaceSlashRuns(url)

\* a request that is over stays in its slot until the next one arrives, or
\* leaves it at once when the model follows two requests
Settle(s) == IF Over(s) /\ ~limits.keep THEN IdleSlot ELSE s

\* the request of slot r came first, and a request that arrived while it
\* was in flight is already answered
Passed(r) ==
  /\ ~slots[r].later
  /\ \E q \in Slots \ {r} : slots[q].later /\ slots[q].sent

\* emitEvent and delayResponse: the request enters, the environment is
\* refreshed and the global latency timer is set
Arrive(r, kind) ==
  /\ lifecycle = "listening"
  /\ r <= limits.inFlight
  /\ Free(slots[r])
  /\ \A q \in Slots : q < r => ~Free(slots[q])
  /\ \E ret \in RefreshReturns(environment) :
       /\ environment' = refreshEnvironment(environment, ret)
  /\ slots' = [slots EXCEPT ![r] =
       [IdleSlot EXCEPT !.pc = "delay", !.method = kind.method,
                        !.url = kind.url, !.originalUrl = kind.url,
                        !.contentType = kind.contentType,
                        !.reqBody = kind.body,
                        !.later = \E q \in Slots \ {r} : ~Free(slots[q]),
                        !.events = <<<<"entering-request">>>>]]
  /\ UNCHANGED <<lifecycle, options, startEnv, handlers, requestNumber,
                 corsRegistered, proxyTarget, emitted, dispatched, aborts>>
  /\ UNCHANGED <<limits, stops, headerVars, refreshVars, urlVars>>

\* a delay that sleeps: the timer fires only when no other request is
\* suspended in a delay
GlobalLatencyTimerBlocking(r) ==
  /\ Alive
  /\ slots[r].pc = "delay"
  /\ \A q \in Slots \ {r} : slots[q].pc \notin {"delay", "routeDelay"}
  /\ slots' = [slots EXCEPT ![r].pc = "body",
                            ![r].late = Killed,
                            ![r].passed = Passed(r),
                            ![r].url = deduplicateSlashes(@)]
  /\ UNCHANGED <<lifecycle, options, environment, startEnv, handlers,
                 requestNumber, corsRegistered, proxyTarget, emitted, dispatched, aborts>>
  /\ UNCHANGED <<limits, stops, headerVars, refreshVars, urlVars>>

\* the global latency timer fires: deduplicateSlashes, cookieParser, and
\* parseBody registers its listeners
GlobalLatencyTimer(r) ==
  /\ Alive
  /\ slots[r].pc = "delay"
  /\ slots' = [slots EXCEPT ![r].pc = "body",
                            ![r].late = Killed,
                            ![r].passed = Passed(r),
                            ![r].url = deduplicateSlashes(@)]
  /\ UNCHANGED <<lifecycle, options, environment, startEnv, handlers,
                 requestNumber, corsRegistered, proxyTarget, emitted, dispatched, aborts>>
  /\ UNCHANGED <<limits, stops, headerVars, refreshVars, urlVars>>

\* the first registered route handler express matches, 0 when none does
Match(method, path) ==
  LET hits == {h \in 1..Len(handlers) :
                 handlers[h].method = method /\ handlers[h].path = path}
  IN IF hits = {} THEN 0 ELSE CHOOSE h \in hits : \A g \in hits : h <= g

\* a preflight handler registered for every method
CorsHandlesAll(method) == TRUE

\* server.options('/*'): the methods the preflight handler is registered for
CorsHandles(method) == method = "options"

\* what a route handler finds on entry, after the refresh: the identifier
\* of the held environment and whether it holds the route of the handler
Entry(env, declaredRoute) ==
  [uuid |-> env.uuid,
   found |-> \E i \in 1..Len(env.routes) :
               env.routes[i].uuid = declaredRoute.uuid]

\* the handler of a route (the part before its latency timer)
RouteHandler(r, s, h) ==
  /\ \E ret \in RefreshReturns(environment) :
       LET env == refreshEnvironment(environment, ret)
           currentRoute == getRefreshedRoute(env, handlers[h].route)
       IN /\ environment' = env
          /\ IF currentRoute = NoRoute
             THEN /\ slots' = [slots EXCEPT ![r] = Settle(
                       [sendError(s, ROUTE_NO_LONGER_EXISTS, 404) EXCEPT
                          !.pc = "done", !.by = "routeGone",
                          !.at = Entry(env, handlers[h].route)])]
                  /\ UNCHANGED <<requestNumber, dispatched>>
             ELSE /\ \E index \in chooseResponse(currentRoute, requestNumber[h]) :
                       slots' = [slots EXCEPT ![r] =
                         [s EXCEPT
                            !.pc = "routeDelay", !.by = "route",
                            !.at = Entry(env, handlers[h].route),
                            !.held = env,
                            !.resp = currentRoute.responses[index + 1],
                            !.sel = [handler |-> h,
                                     replaced |-> env # environment,
                                     k |-> dispatched[h] + 1,
                                     counter |-> requestNumber[h],
                                     n |-> Len(currentRoute.responses),
                                     sequential |-> currentRoute.sequentialResponse,
                                     index |-> index]]]
                  /\ requestNumber' =
                       [requestNumber EXCEPT ![h] = NextRequestNumber(@)]
                  /\ dispatched' = [dispatched EXCEPT ![h] = @ + 1]

\* a middleware or a handler throws while express runs it: express hands
\* the error to errorHandler
Unhandled(r, s, env) ==
  /\ slots' = [slots EXCEPT ![r] = Settle(errorHandler(s, ERR_INVALID_CHAR))]
  /\ environment' = env
  /\ UNCHANGED <<requestNumber, dispatched>>

\* the CORS preflight handler
CorsHandler(r, s) ==
  /\ \E ret \in RefreshReturns(environment) :
       LET env == refreshEnvironment(environment, ret) IN
       IF Throws(CORSHeaders \o env.headers)
       THEN Unhandled(r, [SetResponseHeaders(
                            s, BeforeThrow(CORSHeaders \o env.headers))
                          EXCEPT !.corsNow = env.cors], env)
       ELSE
       /\ environment' = env
       /\ slots' = [slots EXCEPT ![r] = Settle(
            [SetResponseHeaders(s, CORSHeaders \o env.headers) EXCEPT
               !.statusCode = 200, !.sent = TRUE, !.pc = "done",
               !.by = "cors", !.corsNow = env.cors, !.held = env])]
       /\ UNCHANGED <<requestNumber, dispatched>>

\* the proxy middleware takes the request
ProxyForward(r, s) ==
  /\ slots' = [slots EXCEPT ![r] =
       [s EXCEPT !.pc = "proxying", !.by = "proxy"]]
  /\ UNCHANGED <<environment, requestNumber, dispatched>>

\* no handler takes the request: express answers 404
NotFound(r, s) ==
  /\ slots' = [slots EXCEPT ![r] = Settle(
       [s EXCEPT !.pc = "done", !.by = "default", !.statusCode = 404,
                 !.body = <<"Cannot", s.method>>, !.sent = TRUE])]
  /\ UNCHANGED <<environment, requestNumber, dispatched>>

\* the 'end' event of the request: parseBody decodes the body, logRequest
\* registers the completion hook, setResponseHeaders applies the environment
\* headers, and express runs the first handler that matches
BodyEnd(r) ==
  /\ Alive
  /\ slots[r].pc = "body"
  /\ LET s0 == slots[r]
         isJson == DecodesJson(s0.contentType)
         s1 == [s0 EXCEPT !.rawBody = TRUE,
                          !.bodyText = <<s0.reqBody>>,
                          !.bodyJSON = isJson /\ JsonParses(s0.reqBody),
                          !.bodyForm = DecodesForm(s0.contentType)]
         s2 == IF isJson /\ ~JsonParses(s0.reqBody)
               THEN EmitError(s1, REQUEST_BODY_PARSE) ELSE s1
         s3 == [s2 EXCEPT !.hook = TRUE]
         s4 == SetResponseHeaders(s3, BeforeThrow(environment.headers))
         h == Match(s4.method, PathOf(s4.url))
     IN IF Throws(environment.headers)
        THEN Unhandled(r, s4, environment)
        ELSE IF h # 0 THEN requestNumber[h] <= limits.dispatch /\ RouteHandler(r, s4, h)
        ELSE IF corsRegistered /\ CorsHandles(s4.method) THEN CorsHandler(r, s4)
        ELSE IF proxyTarget # NoProxy THEN ProxyForward(r, s4)
        ELSE NotFound(r, s4)
  /\ UNCHANGED <<lifecycle, options, startEnv, handlers, corsRegistered,
                 proxyTarget, emitted, aborts>>
  /\ UNCHANGED <<limits, stops, headerVars, refreshVars, urlVars>>

(***************************************************************************)
(* Serving a route response                                                *)
(***************************************************************************)
\* GetContentType of @mockoon/commons: the value of the first Content-Type
\* header of a list, "" when there is none
GetContentType(headers) ==
  LET found == {i \in 1..Len(headers) :
                  toLowerCase(headers[i].key) = "content-type"}
  IN IF found = {} THEN ""
     ELSE headers[CHOOSE i \in found : \A j \in found : i <= j].value

\* GetRouteResponseContentType of @mockoon/commons: the content type of the
\* route response, else that of the environment
GetRouteResponseContentType(env, routeResponse) ==
  IF GetContentType(routeResponse.headers) # ""
  THEN GetContentType(routeResponse.headers)
  ELSE GetContentType(env.headers)

\* mime-types lookup on the file paths of the model
mimeTypeLookup(filePath) == IF filePath = "f.txt" THEN "text/plain" ELSE ""

MimeTypesWithTemplating == {"application/json", "text/plain", "text/html"}

\* catch blocks that answer 500
ServingErrorWith500(s, code) ==
  [s EXCEPT !.events = Append(@, <<"error", code>>),
            !.headers = ResponseSet(@, "Content-Type", "text/plain"),
            !.body = <<code, "error.message">>,
            !.statusCode = 500,
            !.sent = TRUE,
            !.pc = "done"]

\* the catch blocks of the route handler: the error event, then sendError
\* without a status
ServingError(s, code) ==
  [sendError(EmitError(s, code), <<code, "error.message">>, NoStatus) EXCEPT
     !.pc = "done"]

\* the try block of the callback of the route latency timer
Serve(r, s2, enabledRouteResponse, contentType, routeContentType) ==
  IF enabledRouteResponse.filePath # ""
  THEN \E filePath \in RenderOutcomes(enabledRouteResponse.filePath) :
         slots' = [slots EXCEPT ![r] = Settle(
           IF filePath = TemplateError
           THEN ServingError(s2, ROUTE_SERVING_ERROR)
           ELSE LET s3 == IF routeContentType = ""
                          THEN [s2 EXCEPT !.headers =
                                  ResponseSet(@, "Content-Type",
                                              mimeTypeLookup(filePath))]
                          ELSE s2
                    s4 == IF ~enabledRouteResponse.sendFileAsBody
                          THEN [s3 EXCEPT !.headers =
                                  ResponseSet(@, "Content-Disposition",
                                              "attachment")]
                          ELSE s3
                IN [s4 EXCEPT !.pc = "reading"])]
  ELSE \E body \in (IF enabledRouteResponse.disableTemplating
                    THEN {enabledRouteResponse.body}
                    ELSE RenderOutcomes(enabledRouteResponse.body)) :
         slots' = [slots EXCEPT ![r] = Settle(
           LET s3 == IF contentType = "application/json"
                     THEN [s2 EXCEPT !.headers =
                             ResponseSet(@, "Content-Type",
                                         "application/json")]
                     ELSE s2
           IN IF body = TemplateError
              THEN ServingError(s3, ROUTE_SERVING_ERROR)
              ELSE [s3 EXCEPT !.body = <<body>>, !.sent = TRUE,
                              !.pc = "done"])]

\* the callback of the route latency timer
RouteLatencyTimer(r) ==
  /\ Alive
  /\ slots[r].pc = "routeDelay"
  /\ LET s0 == slots[r]
         enabledRouteResponse == s0.resp
         contentType ==
           GetRouteResponseContentType(environment, enabledRouteResponse)
         routeContentType == GetContentType(enabledRouteResponse.headers)
         s1 == [s0 EXCEPT !.statusCode = enabledRouteResponse.statusCode,
                          !.late = @ \/ Killed,
                          !.passed = @ \/ Passed(r),
                          !.read = environment]
         s2 == SetResponseHeaders(s1, BeforeThrow(enabledRouteResponse.headers))
     IN IF Throws(enabledRouteResponse.headers)
        THEN /\ lifecycle' = "crashed"
             /\ slots' = [slots EXCEPT ![r] = [s2 EXCEPT !.pc = "crashed"]]
        ELSE /\ UNCHANGED lifecycle
             /\ Serve(r, s2, enabledRouteResponse, contentType,
                      routeContentType)
  /\ UNCHANGED <<options, environment, startEnv, handlers,
                 requestNumber, corsRegistered, proxyTarget, emitted, dispatched, aborts>>
  /\ UNCHANGED <<limits, stops, headerVars, refreshVars, urlVars>>

\* the callback of readFile
FileRead(r) ==
  /\ Alive
  /\ slots[r].pc = "reading"
  /\ LET s0 == slots[r]
         enabledRouteResponse == s0.resp
         fileMimeType == mimeTypeLookup(enabledRouteResponse.filePath)
     IN \E readError \in BOOLEAN, fileContent \in RenderOutcomes("{{t}}") :
          slots' = [slots EXCEPT ![r] = Settle(
            IF readError
            THEN ServingError(s0, ROUTE_FILE_SERVING_ERROR)
            ELSE IF fileMimeType \in MimeTypesWithTemplating
                    /\ ~enabledRouteResponse.disableTemplating
            THEN IF fileContent = TemplateError
                 THEN ServingError(s0, ROUTE_FILE_SERVING_ERROR)
                 ELSE [s0 EXCEPT !.body = <<fileContent>>, !.sent = TRUE,
                                 !.pc = "done"]
            ELSE [s0 EXCEPT !.body = BINARY_BODY, !.sent = TRUE,
                            !.pc = "done"])]
  /\ UNCHANGED <<lifecycle, options, environment, startEnv, handlers,
                 requestNumber, corsRegistered, proxyTarget, emitted, dispatched, aborts>>
  /\ UNCHANGED <<limits, stops, headerVars, refreshVars, urlVars>>

(***************************************************************************)
(* The proxy                                                               *)
(***************************************************************************)
\* the headers of an upstream response, keyed in lower case
UpstreamHeaders ==
  [EmptyStore EXCEPT !["x-a"] = [name |-> "x-a", vals |-> <<"u">>]]

\* onProxyReq
ProxyReq(r) ==
  /\ Alive
  /\ slots[r].pc = "proxying"
  /\ \E ret \in RefreshReturns(environment) :
       LET env == refreshEnvironment(environment, ret) IN
       /\ environment' = env
       /\ slots' = [slots EXCEPT
            ![r].pc = "upstream",
            ![r].proxied = TRUE,
            ![r].proxyReqHeaders =
               setHeaders(Rendered(env.proxyReqHeaders),
                          [shape |-> "proxyReq", headers |-> @]).headers]
  /\ UNCHANGED <<lifecycle, options, startEnv, handlers, requestNumber,
                 corsRegistered, proxyTarget, emitted, dispatched,
                 aborts>>
  /\ UNCHANGED <<limits, stops, headerVars, refreshVars, urlVars>>

\* onProxyRes, after which the proxy relays the upstream response
ProxyRes(r) ==
  /\ Alive
  /\ slots[r].pc = "upstream"
  /\ \E ret \in RefreshReturns(environment) :
       LET env == refreshEnvironment(environment, ret) IN
       /\ environment' = env
       /\ slots' = [slots EXCEPT ![r] = Settle(
            [@ EXCEPT
               !.pc = "done",
               !.sent = TRUE,
               !.body = <<"upstream">>,
               !.proxyResHeaders =
                  setHeaders(Rendered(env.proxyResHeaders),
                             [shape |-> "proxyRes",
                              headers |-> UpstreamHeaders]).headers])]
  /\ UNCHANGED <<lifecycle, options, startEnv, handlers, requestNumber,
                 corsRegistered, proxyTarget, emitted, dispatched,
                 aborts>>
  /\ UNCHANGED <<limits, stops, headerVars, refreshVars, urlVars>>

\* the host the message of onError names
ErrorHost(env, target) == env.proxyHost

\* onError: a transport-level failure of the proxy
ProxyError(r) ==
  /\ Alive
  /\ slots[r].pc \in {"proxying", "upstream"}
  /\ slots' = [slots EXCEPT ![r] = Settle(
       [sendError(EmitError(@, PROXY_ERROR),
                  <<PROXY_ERROR, ErrorHost(environment, proxyTarget), @.url,
                    "error">>,
                  504)
        EXCEPT !.pc = "done"])]
  /\ UNCHANGED <<lifecycle, options, environment, startEnv, handlers,
                 requestNumber, corsRegistered, proxyTarget, emitted, dispatched, aborts>>
  /\ UNCHANGED <<limits, stops, headerVars, refreshVars, urlVars>>

(***************************************************************************)
(* Completion                                                              *)
(***************************************************************************)
\* CreateTransaction
CreateTransaction(s) ==
  [urlPath |-> PathOf(s.originalUrl), statusCode |-> s.statusCode,
   body |-> s.body, proxied |-> s.proxied]

\* the 'close' event of the response: the response is completed, or the
\* connection was terminated before that
Close(r) ==
  /\ Alive
  /\ slots[r].pc # "idle"
  /\ ~slots[r].closed
  /\ slots[r].sent \/ aborts < limits.aborts \/ Killed
  /\ aborts' = IF slots[r].sent \/ Killed THEN aborts ELSE aborts + 1
  /\ slots' = [slots EXCEPT ![r] = Settle(
       [@ EXCEPT
          !.closed = TRUE,
          !.events =
             IF slots[r].hook
             THEN Append(@, <<"transaction-complete",
                              CreateTransaction(slots[r])>>)
             ELSE @])]
  /\ UNCHANGED <<lifecycle, options, environment, startEnv, handlers,
                 requestNumber, corsRegistered, proxyTarget, emitted, dispatched>>
  /\ UNCHANGED <<limits, stops, headerVars, refreshVars, urlVars>>

(***************************************************************************)
(* stop()                                                                  *)
(***************************************************************************)
\* a stop() that kills whether or not there is a server instance
HoldsInstanceAlways == TRUE

\* if (this.serverInstance): start() has created the server instance
HoldsInstance == lifecycle # "constructed"

\* no connection is open: every request that came in has its socket closed
Released == \A r \in Slots : slots[r].pc = "idle" \/ slots[r].closed

\* stop(): kill closes the listening socket and destroys the open sockets;
\* its callback runs later
Stop ==
  /\ Alive
  /\ stops.calls < MaxStops
  /\ limits.busyStops \/ \A r \in Slots : slots[r].pc = "idle"
  /\ stops' = [calls |-> stops.calls + 1,
               pending |-> IF HoldsInstance THEN stops.pending + 1
                           ELSE stops.pending]
  /\ lifecycle' = IF lifecycle = "constructed" THEN lifecycle ELSE "stopping"
  /\ UNCHANGED <<options, environment, startEnv, handlers, requestNumber,
                 corsRegistered, proxyTarget, emitted, slots, dispatched,
                 aborts, limits>>
  /\ UNCHANGED <<headerVars, refreshVars, urlVars>>

\* the callback of kill: the server has closed and no socket is left
StopCallback ==
  /\ Alive
  /\ stops.pending > 0
  /\ Released
  /\ stops' = [stops EXCEPT !.pending = @ - 1]
  /\ emitted' = Append(emitted, <<"stopped">>)
  /\ lifecycle' = IF lifecycle = "constructed" THEN lifecycle ELSE "stopped"
  /\ UNCHANGED <<options, environment, startEnv, handlers, requestNumber,
                 corsRegistered, proxyTarget, slots, dispatched, aborts,
                 limits>>
  /\ UNCHANGED <<headerVars, refreshVars, urlVars>>

(***************************************************************************)
(* The server                                                              *)
(***************************************************************************)
RefreshOff ==
  /\ rBefore = NoEnv
  /\ rRet = NotCalled

\* the bounds of a specification that runs no server
NoRun ==
  [inFlight |-> 0, dispatch |-> 0, keep |-> TRUE, aborts |-> 0,
   kinds |-> {}, envs |-> RefreshEnvs, busyStops |-> TRUE]

UrlOff ==
  /\ uPc = "off"
  /\ uIn = <<>>
  /\ uOut = <<>>

NoStops == [calls |-> 0, pending |-> 0]

HeadersOff ==
  /\ hPc = "off"
  /\ hEntries = <<>>
  /\ hBefore = [shape |-> "response", headers |-> EmptyStore]
  /\ hTarget = [shape |-> "response", headers |-> EmptyStore]
  /\ hCalls = 0

Constructed(constructions) ==
  /\ lifecycle = "constructed"
  /\ \E c \in constructions :
       /\ options = c.options
       /\ environment = c.environment
  /\ startEnv = NoEnv
  /\ handlers = <<>>
  /\ requestNumber = <<>>
  /\ dispatched = <<>>
  /\ corsRegistered = FALSE
  /\ proxyTarget = NoProxy
  /\ emitted = <<>>
  /\ slots = [r \in Slots |-> IdleSlot]
  /\ aborts = 0
  /\ stops = NoStops
  /\ RefreshOff
  /\ HeadersOff
  /\ UrlOff

\* requests served one at a time
Init ==
  /\ Constructed(Constructions)
  /\ limits = [inFlight |-> 1, dispatch |-> MaxDispatch, keep |-> TRUE,
               aborts |-> MaxAborts, kinds |-> ReqKinds,
               envs |-> RefreshEnvs, busyStops |-> TRUE]

\* two requests in flight
InitOverlap ==
  /\ Constructed({Construct([BaseEnv EXCEPT !.cors = FALSE], TRUE)})
  /\ limits = [inFlight |-> 2, dispatch |-> MaxOverlapDispatch,
               keep |-> FALSE, aborts |-> 0, kinds |-> OverlapKinds,
               envs |-> {BaseEnv}, busyStops |-> FALSE]

Next ==
  \/ Start
  \/ Listening
  \/ \E code \in ServerErrorCodes : ServerError(code)
  \/ \E r \in Slots, kind \in limits.kinds : Arrive(r, kind)
  \/ \E r \in Slots : GlobalLatencyTimer(r)
  \/ \E r \in Slots : BodyEnd(r)
  \/ \E r \in Slots : RouteLatencyTimer(r)
  \/ \E r \in Slots : FileRead(r)
  \/ \E r \in Slots : ProxyReq(r)
  \/ \E r \in Slots : ProxyRes(r)
  \/ \E r \in Slots : ProxyError(r)
  \/ \E r \in Slots : Close(r)
  \/ Stop
  \/ StopCallback

Spec == Init /\ [][Next]_vars

\* requests with a body, served one at a time
InitBody ==
  /\ Constructed({Construct(BaseEnv, FALSE)})
  /\ limits = [inFlight |-> 1, dispatch |-> MaxBodyDispatch, keep |-> TRUE,
               aborts |-> 0, kinds |-> BodyKinds,
               envs |-> RefreshEnvs, busyStops |-> TRUE]

SpecBody == InitBody /\ [][Next]_vars

\* live refreshes that edit, move and add routes
InitLive ==
  /\ Constructed({Construct(BaseEnv, TRUE)})
  /\ limits = [inFlight |-> 1, dispatch |-> MaxLiveDispatch, keep |-> TRUE,
               aborts |-> 0, kinds |-> LiveKinds,
               envs |-> LiveEnvs, busyStops |-> TRUE]

SpecLive == InitLive /\ [][Next]_vars

(***************************************************************************)
(* Registration of the routes of every environment                         *)
(***************************************************************************)
\* the routes an environment may declare
RoutePool ==
  {RouteA(<<RespBody0>>), RouteGet, RouteBadPattern, RouteBadMethod,
   RouteDisabled}

\* the route lists: up to MaxRoutes routes of the pool, each at most once
RouteLists ==
  {l \in UNION {[1..n -> RoutePool] : n \in 1..MaxRoutes} :
     \A i, j \in 1..Len(l) : l[i] = l[j] => i = j}

\* a request for the method and path of each route of the pool that has a
\* method of HTTP
RouteKinds ==
  {[method |-> "options", url |-> UrlA, contentType |-> "", body |-> ""]}
    \cup {[method |-> "get", url |-> u, contentType |-> "", body |-> ""] :
            u \in {UrlB, UrlC, <<"/", "(">>, <<"/", "d">>}}

InitRoutes ==
  /\ Constructed({Construct([BaseEnv EXCEPT !.routes = l, !.cors = FALSE,
                                             !.proxyMode = FALSE], FALSE) :
                    l \in RouteLists})
  /\ limits = [inFlight |-> 1, dispatch |-> MaxRouteDispatch, keep |-> TRUE,
               aborts |-> 0, kinds |-> RouteKinds,
               envs |-> {}, busyStops |-> TRUE]

NextRoutes ==
  \/ Start
  \/ Listening
  \/ \E r \in Slots, kind \in limits.kinds : Arrive(r, kind)
  \/ \E r \in Slots : GlobalLatencyTimer(r)
  \/ \E r \in Slots : BodyEnd(r)
  \/ \E r \in Slots : RouteLatencyTimer(r)
  \/ \E r \in Slots : Close(r)

SpecRoutes == InitRoutes /\ [][NextRoutes]_vars

SpecOverlap == InitOverlap /\ [][Next]_vars

(***************************************************************************)
(* refreshEnvironment as a function of the held environment, the options   *)
(* and what the refresh function returns                                   *)
(***************************************************************************)
\* the environments a server may hold when refreshEnvironment is called
AllEnvs ==
  {[BaseEnv EXCEPT !.uuid = u, !.cors = c, !.proxyMode = m,
                   !.proxyHost = h] :
     u \in {"", "e1", "e2"}, c \in BOOLEAN, m \in BOOLEAN,
     h \in {"http://h1", "http://h2"}}
  \cup RefreshEnvs

InitRefresh ==
  /\ lifecycle = "constructed"
  /\ options \in [refreshEnvironmentFunction : BOOLEAN]
  /\ environment \in AllEnvs
  /\ startEnv = NoEnv
  /\ handlers = <<>>
  /\ requestNumber = <<>>
  /\ dispatched = <<>>
  /\ corsRegistered = FALSE
  /\ proxyTarget = NoProxy
  /\ emitted = <<>>
  /\ slots = [r \in Slots |-> IdleSlot]
  /\ aborts = 0
  /\ limits = NoRun
  /\ stops = NoStops
  /\ RefreshOff
  /\ HeadersOff
  /\ UrlOff

\* one call of refreshEnvironment
RefreshCall ==
  /\ \E ret \in RefreshReturns(environment) :
       /\ environment' = refreshEnvironment(environment, ret)
       /\ rRet' = ret
  /\ rBefore' = environment
  /\ UNCHANGED <<lifecycle, options, startEnv, handlers, requestNumber,
                 corsRegistered, proxyTarget, emitted, slots, dispatched,
                 aborts, limits, stops>>
  /\ UNCHANGED <<headerVars, urlVars>>

SpecRefresh == InitRefresh /\ [][RefreshCall]_vars

(***************************************************************************)
(* The header merger as a function of a header list and a target           *)
(***************************************************************************)
\* a header with the outcome the template engine has for its value
HeaderEntries ==
  {e \in [key : Keys, value : Values, out : {"", "a", "r", TemplateError}] :
     e.out \in RenderOutcomes(e.value)}

HeaderLists == UNION {[1..n -> HeaderEntries] : n \in 1..MaxHeaders}

\* the headers a target holds before setHeaders: none, or a content type and
\* a custom header, their names in lower case
HeldStore ==
  [EmptyStore EXCEPT
     !["content-type"] = [name |-> "content-type", vals |-> <<"text/html">>],
     !["x-a"] = [name |-> "x-a", vals |-> <<"z">>]]

Targets ==
  [shape : {"response", "proxyReq", "proxyRes"},
   headers : {EmptyStore, HeldStore}]

InitHeaders ==
  /\ lifecycle = "constructed"
  /\ options = [refreshEnvironmentFunction |-> FALSE]
  /\ environment = BaseEnv
  /\ startEnv = NoEnv
  /\ handlers = <<>>
  /\ requestNumber = <<>>
  /\ dispatched = <<>>
  /\ corsRegistered = FALSE
  /\ proxyTarget = NoProxy
  /\ emitted = <<>>
  /\ slots = [r \in Slots |-> IdleSlot]
  /\ aborts = 0
  /\ limits = NoRun
  /\ stops = NoStops
  /\ RefreshOff
  /\ UrlOff
  /\ hPc = "ready"
  /\ hEntries \in HeaderLists
  /\ hTarget \in Targets
  /\ hBefore = hTarget
  /\ hCalls = 0

\* one call of setHeaders
SetHeadersCall ==
  /\ hPc = "ready"
  /\ hPc' = "done"
  /\ hTarget' = setHeaders(hEntries, hTarget)
  /\ hCalls' = TemplateCalls(hEntries)
  /\ UNCHANGED <<hEntries, hBefore>>
  /\ UNCHANGED <<serverVars, refreshVars, urlVars>>

SpecHeaders == InitHeaders /\ [][SetHeadersCall]_vars

(***************************************************************************)
(* deduplicateSlashes as a function of the request URL                     *)
(***************************************************************************)
UrlChars == {"/", "a", "?"}

\* the request URLs: a path that starts with '/', then perhaps a query
Urls ==
  {u \in UNION {[1..n -> UrlChars] : n \in 1..MaxUrl} : u[1] = "/"}

InitUrl ==
  /\ lifecycle = "constructed"
  /\ options = [refreshEnvironmentFunction |-> FALSE]
  /\ environment = BaseEnv
  /\ startEnv = NoEnv
  /\ handlers = <<>>
  /\ requestNumber = <<>>
  /\ dispatched = <<>>
  /\ corsRegistered = FALSE
  /\ proxyTarget = NoProxy
  /\ emitted = <<>>
  /\ slots = [r \in Slots |-> IdleSlot]
  /\ aborts = 0
  /\ limits = NoRun
  /\ stops = NoStops
  /\ RefreshOff
  /\ HeadersOff
  /\ uPc = "ready"
  /\ uIn \in Urls
  /\ uOut = uIn

\* one run of the deduplicateSlashes middleware
DeduplicateCall ==
  /\ uPc = "ready"
  /\ uPc' = "done"
  /\ uOut' = deduplicateSlashes(uIn)
  /\ UNCHANGED uIn
  /\ UNCHANGED <<serverVars, headerVars, refreshVars>>

SpecUrl == InitUrl /\ [][DeduplicateCall]_vars

(***************************************************************************)
(* Properties                                                              *)
(***************************************************************************)

\* the transaction-complete events among the events of a request
TxCount(events) ==
  Cardinality({i \in 1..Len(events) : events[i][1] = "transaction-complete"})

\* the error events among the events of a request
ErrorEvents(events) == {i \in 1..Len(events) : events[i][1] = "error"}

\* the value of the Content-Type header of the response of a request
ContentTypeOf(s) == s.headers["content-type"].vals

\* a registered route handler claims the method and path of a request
Claimed(s) == Match(s.method, PathOf(s.url)) # 0

\* the request went through the middleware stages, none of which threw, and
\* express ran a handler for it
PassedStages(s) == s.by \notin {"none", "errorHandler"}

C2_ExactlyOneTransactionComplete ==
  \A r \in Slots :
    slots[r].closed => TxCount(slots[r].events) = 1

\* C3 (as stated): with a refresh function configured, a route handler that
\* finds no route with its identifier in the refreshed environment answers
\* 404 with the fixed text/plain body, selects no response and emits no
\* error event.
C3_RouteGoneAnswers404 ==
  \A r \in Slots :
    (/\ options.refreshEnvironmentFunction
     /\ slots[r].at # NoSel
     /\ ~slots[r].at.found)
    => /\ slots[r].statusCode = 404
       /\ slots[r].body = ROUTE_NO_LONGER_EXISTS
       /\ ContentTypeOf(slots[r]) = <<"text/plain">>
       /\ slots[r].sel = NoSel
       /\ ErrorEvents(slots[r].events) = {}

\* C3 (amended): the same, when the refreshed environment has an identifier.
C3_RouteGoneAnswers404WithIdentifier ==
  \A r \in Slots :
    (/\ options.refreshEnvironmentFunction
     /\ slots[r].at # NoSel
     /\ ~slots[r].at.found
     /\ slots[r].at.uuid # "")
    => /\ slots[r].statusCode = 404
       /\ slots[r].body = ROUTE_NO_LONGER_EXISTS
       /\ ContentTypeOf(slots[r]) = <<"text/plain">>
       /\ slots[r].sel = NoSel
       /\ ErrorEvents(slots[r].events) = {}
       /\ slots[r].sent

\* C3: a request answered by the handler of a route that is gone
C3_Witness ==
  \E r \in Slots :
    /\ slots[r].by = "routeGone"
    /\ slots[r].at.uuid # ""
    /\ ~slots[r].at.found
    /\ slots[r].statusCode = 404

\* C8 (as stated): with the proxy enabled at start(), every request that
\* passes the middleware stages and that no registered route claims is
\* forwarded to the proxy target.
C8_UnmatchedIsProxied ==
  \A r \in Slots :
    (/\ PassedStages(slots[r])
     /\ ProxyEnabled(startEnv)
     /\ ~Claimed(slots[r]))
    => slots[r].by = "proxy"

\* C8 (amended): with the proxy enabled at start(), every request that
\* passes the middleware stages and that no registered route claims is
\* forwarded to the proxy target, except an OPTIONS request when the cors
\* flag was set at start().
C8_UnmatchedIsProxiedUnlessPreflight ==
  \A r \in Slots :
    (/\ PassedStages(slots[r])
     /\ ProxyEnabled(startEnv)
     /\ ~Claimed(slots[r])
     /\ ~(startEnv.cors /\ slots[r].method = "options"))
    => slots[r].by = "proxy"

\* C8: an unmatched OPTIONS request forwarded to the proxy, and the cors flag
\* was not set at start()
C8_Witness ==
  \E r \in Slots :
    /\ slots[r].by = "proxy"
    /\ slots[r].method = "options"
    /\ ~startEnv.cors

\* C9 (as stated): the preflight handler answers only if the cors flag of
\* the environment held at the time of the request is set, and only if no
\* registered route claims the request.
C9_PreflightOnlyIfCorsNow ==
  \A r \in Slots :
    slots[r].by = "cors" =>
      /\ slots[r].corsNow
      /\ ~Claimed(slots[r])

\* C9 (amended): the preflight handler answers (status 200, the CORS headers
\* on the response) only an OPTIONS request, only if the cors flag was set
\* at start(), and only if no registered route claims the request; a request
\* a registered route claims is answered by the handler of that route.
C9_PreflightOnlyIfCorsAtStart ==
  \A r \in Slots :
    /\ slots[r].by = "cors" =>
         /\ slots[r].method = "options"
         /\ startEnv.cors
         /\ ~Claimed(slots[r])
         /\ slots[r].statusCode = 200
         /\ slots[r].headers["access-control-allow-origin"].vals # <<>>
    /\ (PassedStages(slots[r]) /\ Claimed(slots[r])) =>
         slots[r].by \in {"route", "routeGone"}

\* C9: a preflight answer given while the cors flag of the held environment
\* is not set
C9_Witness ==
  \E r \in Slots :
    /\ slots[r].by = "cors"
    /\ ~slots[r].corsNow
    /\ slots[r].statusCode = 200

\* a proxied request that ended in a transport-level failure
ProxyFailed(s) ==
  s.by = "proxy" /\ s.pc = "done" /\ s.body # <<"upstream">>

\* C10: a transport-level proxy failure emits exactly one ProxyError event
\* and completes the request with status 504 and a text/plain body holding
\* the host of the proxy target, the request path and the error text.
C10_ProxyFailureNamesTarget ==
  \A r \in Slots :
    ProxyFailed(slots[r]) =>
      /\ Cardinality({i \in ErrorEvents(slots[r].events) :
                        slots[r].events[i][2] = PROXY_ERROR}) = 1
      /\ slots[r].statusCode = 504
      /\ ContentTypeOf(slots[r]) = <<"text/plain">>
      /\ slots[r].body =
           <<PROXY_ERROR, proxyTarget, slots[r].url, "error">>

\* serving the route response of a request failed
ServingFailed(s) ==
  \E i \in ErrorEvents(s.events) :
    s.events[i][2] \in {ROUTE_SERVING_ERROR, ROUTE_FILE_SERVING_ERROR}

\* C11: no failure raised while a request is served escapes from a timer or
\* I/O callback: the process never crashes.
C11_NoFailureEscapes ==
  /\ lifecycle # "crashed"
  /\ \A r \in Slots : slots[r].pc # "crashed"

\* C12 (as stated): when serving a route response fails, the response has
\* status 500 and a body with the error text, whatever the route response
\* configures.
C12_ServingErrorIs500 ==
  \A r \in Slots :
    ServingFailed(slots[r]) =>
      /\ slots[r].statusCode = 500
      /\ slots[r].body[2] = "error.message"

\* C12 (amended): when serving a route response fails, one error event of
\* that kind is emitted and the response has the status the selected route
\* response configures and a body with the error text.
C12_ServingErrorKeepsRouteStatus ==
  \A r \in Slots :
    ServingFailed(slots[r]) =>
      /\ Cardinality(ErrorEvents(slots[r].events)) = 1
      /\ \A i \in ErrorEvents(slots[r].events) :
           slots[r].body = <<slots[r].events[i][2], "error.message">>
      /\ slots[r].statusCode = slots[r].resp.statusCode
      /\ slots[r].sent

\* C12: reading the file of a route response configured with 202 failed
C12_Witness ==
  \E r \in Slots :
    /\ ServingFailed(slots[r])
    /\ slots[r].body[1] = ROUTE_FILE_SERVING_ERROR
    /\ slots[r].statusCode = 202

\* the response of a request came from sendError
ThroughSendError(s) ==
  \/ s.by \in {"routeGone", "errorHandler"}
  \/ ServingFailed(s)
  \/ ProxyFailed(s)

StoppedCount ==
  Cardinality({i \in 1..Len(emitted) : emitted[i][1] = "stopped"})

\* C14: every stopped event answers a stop() call of its own on an instance
\* that holds a server instance; stop() on an instance that was never
\* started emits nothing and leaves nothing pending; a stopped event is
\* emitted only after start(), when the server no longer listens and every
\* socket is closed.
C14_StoppedOnlyAfterStop ==
  /\ StoppedCount + stops.pending <= stops.calls
  /\ lifecycle = "constructed" => (StoppedCount = 0 /\ stops.pending = 0)
  /\ StoppedCount > 0 =>
       /\ startEnv # NoEnv
       /\ lifecycle \notin {"constructed", "starting", "listening"}
       /\ Released

\* C14: stopped was emitted for a stop() that tore down a request in flight
C14_Witness ==
  /\ StoppedCount = 1
  /\ stops.calls = 1
  /\ \E r \in Slots : slots[r].closed /\ ~slots[r].sent

\* C19: no latency timer callback runs after stop(): no request is carried
\* on by a timer once the server is killed.
C19_TimersClearedOnStop ==
  \A r \in Slots : ~slots[r].late

\* the query string of a URL: what follows the path
QueryOf(s) == SubSeq(s, Len(PathOf(s)) + 1, Len(s))

\* s holds two consecutive '/'
HasSlashRun(s) == \E i \in 1..(Len(s) - 1) : s[i] = "/" /\ s[i + 1] = "/"

\* C15: after deduplicateSlashes the path has no run of '/', a second pass
\* changes nothing, a path without runs is unchanged, and the query string
\* of the URL is the one the request came with.
C15_OnlyPathSeparatorsChange ==
  uPc = "done" =>
    /\ ~HasSlashRun(PathOf(uOut))
    /\ deduplicateSlashes(uOut) = uOut
    /\ ~HasSlashRun(PathOf(uIn)) => PathOf(uOut) = PathOf(uIn)
    /\ QueryOf(uOut) = QueryOf(uIn)

\* C16: the environment the callback of the route latency timer reads is
\* the one the handler held at its entry, after its refresh, when it chose
\* the response.
C16_TimerReadsEntrySnapshot ==
  \A r \in Slots :
    slots[r].read # NoEnv => slots[r].read = slots[r].held

\* C17: the counter of a route handler never decreases; a request that
\* reaches the selector is handed the value the counter has, which is the
\* starting value plus the number of requests dispatched to the handler
\* before it and is above the value of every request of that handler still
\* in flight; the same step raises the counter by one and leaves the
\* counters of the other handlers as they are.
C17_CounterReadIncrementAtomic ==
  [][/\ \A h \in DOMAIN requestNumber \cap DOMAIN requestNumber' :
          requestNumber'[h] >= requestNumber[h]
     /\ \A r \in Slots :
          (slots[r].sel = NoSel /\ slots'[r].sel # NoSel) =>
            LET h == slots'[r].sel.handler IN
            /\ slots'[r].sel.counter = requestNumber[h]
            /\ slots'[r].sel.counter = FirstRequestNumber + dispatched[h]
            /\ requestNumber'[h] = requestNumber[h] + 1
            /\ \A g \in DOMAIN requestNumber \ {h} :
                 requestNumber'[g] = requestNumber[g]
            /\ \A q \in Slots \ {r} :
                 (slots[q].sel # NoSel /\ slots[q].sel.handler = h) =>
                   slots[q].sel.counter < slots'[r].sel.counter]_vars

\* C17: two requests of one route are in flight with the counter values 1
\* and 2, after a request of another route was dispatched
C17_Witness ==
  \E r, q \in Slots :
    /\ slots[r].pc = "routeDelay" /\ slots[q].pc = "routeDelay"
    /\ slots[r].sel.handler = slots[q].sel.handler
    /\ slots[r].sel.counter = FirstRequestNumber
    /\ slots[q].sel.counter = FirstRequestNumber + 1
    /\ \E g \in DOMAIN requestNumber :
         g # slots[r].sel.handler /\ requestNumber[g] > FirstRequestNumber

\* C18 (as stated): a request dispatched to a sequential route by a handler
\* whose refresh replaced the environment is handed the counter value 1.
C18_CounterResetByRefresh ==
  \A r \in Slots :
    (slots[r].sel # NoSel /\ slots[r].sel.sequential
       /\ slots[r].sel.replaced) =>
      slots[r].sel.counter = FirstRequestNumber

\* C18 (amended): a request dispatched to a sequential route by a handler
\* whose refresh replaced the environment is handed the counter that has
\* gone on from before the refresh: the k-th request dispatched since
\* start() is handed the starting value plus k - 1.
C18_CounterSurvivesRefresh ==
  \A r \in Slots :
    (slots[r].sel # NoSel /\ slots[r].sel.sequential
       /\ slots[r].sel.replaced) =>
      slots[r].sel.counter = FirstRequestNumber + slots[r].sel.k - 1

\* C18: the third request of a sequential route, whose handler replaced
\* the environment on entry, is handed 3
C18_Witness ==
  \E r \in Slots :
    /\ slots[r].sel # NoSel
    /\ slots[r].sel.sequential
    /\ slots[r].sel.replaced
    /\ slots[r].held # startEnv
    /\ slots[r].sel.k = 3
    /\ slots[r].sel.counter = FirstRequestNumber + 2

\* C20: while the process runs, a request suspended in a delay, in a file
\* read or in the proxy can take its next step whatever the state of the
\* other request: a request in a delay can resume though the other one is
\* in a delay, and a request past its delay can go on and be answered
\* though the other one is in a delay.
C20_DelaySuspendsOnlyItsRequest ==
  \A r \in Slots :
    Alive =>
      /\ slots[r].pc = "delay" => ENABLED GlobalLatencyTimer(r)
      /\ slots[r].pc = "routeDelay" => ENABLED RouteLatencyTimer(r)
      /\ slots[r].pc = "reading" => ENABLED FileRead(r)
      /\ slots[r].pc = "proxying" => ENABLED ProxyReq(r)
      /\ slots[r].pc = "upstream" => ENABLED ProxyRes(r)
      /\ (slots[r].pc = "done" /\ slots[r].sent /\ ~slots[r].closed) =>
           ENABLED Close(r)

\* C20: a request that arrived first is answered, after a timer of its own
\* fired when a request that arrived while it was in flight had already
\* been answered
C20_Witness ==
  \E r \in Slots :
    /\ slots[r].passed
    /\ ~slots[r].later
    /\ slots[r].pc = "done"
    /\ slots[r].sent

\* the RequestBodyParseError events of a request
ParseErrors(s) ==
  {i \in ErrorEvents(s.events) : s.events[i][2] = REQUEST_BODY_PARSE}

\* C21: once the body of a request is captured, the raw body and its text
\* are set and the request has gone on to the next stages; when the declared
\* content type is JSON and the text is no JSON text there is exactly one
\* RequestBodyParseError event and no parsed body; in every other case
\* there is no such event, and without a content type there is no parsed
\* body either.
C21_DecodeFailureIsNotFatal ==
  \A r \in Slots :
    slots[r].rawBody =>
      LET s == slots[r]
          fails == s.contentType \in JsonTypes /\ ~JsonParses(s.reqBody)
      IN /\ s.bodyText = <<s.reqBody>>
         /\ s.hook
         /\ s.pc \notin {"idle", "delay", "body"}
         /\ fails => /\ Cardinality(ParseErrors(s)) = 1
                     /\ ~s.bodyJSON
                     /\ ~s.bodyForm
         /\ ~fails => ParseErrors(s) = {}
         /\ s.contentType = "" => (~s.bodyJSON /\ ~s.bodyForm)

\* C21: a request that declared JSON with a charset and sent a text that is
\* no JSON text was proxied and answered, with one RequestBodyParseError
C21_Witness ==
  \E r \in Slots :
    /\ slots[r].contentType = "application/json; charset=utf-8"
    /\ slots[r].reqBody = "{bad"
    /\ Cardinality(ParseErrors(slots[r])) = 1
    /\ slots[r].proxied
    /\ slots[r].sent
    /\ slots[r].closed

\* the enabled routes of env whose registration throws for a reason other
\* than the pattern
FailsOther(env) ==
  {i \in 1..Len(env.routes) :
     env.routes[i].enabled /\ env.routes[i].method \notin Methods}

\* the enabled routes of env whose registration throws on the pattern
FailsPattern(env) ==
  {i \in 1..Len(env.routes) :
     /\ env.routes[i].enabled
     /\ env.routes[i].method \in Methods
     /\ InvalidPattern(RoutePath(env, env.routes[i]))}

\* the enabled routes of env whose registration succeeds
Registers(env) ==
  {i \in 1..Len(env.routes) : env.routes[i].enabled}
    \ (FailsOther(env) \cup FailsPattern(env))

\* the error events of a kind emitted outside any request
EmittedErrors(code) ==
  {j \in 1..Len(emitted) : emitted[j] = <<"error", code>>}

C23_EnvironmentOverridesCors ==
  \A r \in Slots :
    (slots[r].by = "cors" /\ slots[r].sent) =>
      \A i \in 1..Len(slots[r].held.headers) :
        LET header == slots[r].held.headers[i] IN
        (\E j \in 1..Len(CORSHeaders) :
           toLowerCase(CORSHeaders[j].key) = toLowerCase(header.key)) =>
          slots[r].headers[toLowerCase(header.key)].vals = <<header.value>>

\* the handlers are those start() registered, and a request is taken by
\* the handler of a route only at the method and path of that handler
HandlersFixed ==
  /\ startEnv # NoEnv => handlers = setRoutes(startEnv, 1).handlers
  /\ \A r \in Slots :
       slots[r].by \in {"route", "routeGone"} =>
         \E h \in 1..Len(handlers) :
           /\ handlers[h].method = slots[r].method
           /\ handlers[h].path = PathOf(slots[r].url)
           /\ slots[r].by = "route" => slots[r].sel.handler = h

\* the response of the request of slot s is one of the route that the
\* environment the handler held declares under the identifier of the handler
RefreshedData(s) ==
  \E k \in 1..Len(FindRoute(s.held.routes,
                            handlers[s.sel.handler].route.uuid).responses) :
    s.resp = FindRoute(s.held.routes,
                       handlers[s.sel.handler].route.uuid).responses[k]

\* the response of the request of slot s is one of the route as declared at
\* start()
DeclaredData(s) ==
  \E k \in 1..Len(handlers[s.sel.handler].route.responses) :
    s.resp = handlers[s.sel.handler].route.responses[k]

\* C24 (as stated): the handlers are those of start(), requests are
\* dispatched only at their methods and paths, and a request dispatched
\* while the held environment declares the identifier of the route is
\* served with the data of the route in that environment.
C24_HandlersFixedDataRefreshed ==
  /\ HandlersFixed
  /\ \A r \in Slots :
       (slots[r].by = "route" /\ slots[r].at.found) =>
         RefreshedData(slots[r])

\* C24 (amended): the same, the data being that of the route in the held
\* environment when that environment has an identifier, and that of the
\* route as declared at start() when it has none.
C24_HandlersFixedDataRefreshedWithIdentifier ==
  /\ HandlersFixed
  /\ \A r \in Slots :
       (slots[r].by = "route" /\ slots[r].at.found) =>
         IF options.refreshEnvironmentFunction /\ slots[r].at.uuid # ""
         THEN RefreshedData(slots[r])
         ELSE DeclaredData(slots[r])

\* C24: a request is answered at the original method and path of a route
\* that the held environment declares disabled, with another method and
\* endpoint, with the response of that environment
C24_Witness ==
  \E r \in Slots :
    /\ slots[r].by = "route"
    /\ slots[r].held = EnvMoved
    /\ slots[r].method = "options"
    /\ PathOf(slots[r].url) = UrlA
    /\ slots[r].resp = RespBody0
    /\ slots[r].sent

\* C4: refreshEnvironment keeps the held environment when the refresh
\* function returns nothing, when no refresh function is configured and when
\* the held environment has no identifier; otherwise the held environment
\* becomes the returned one.
C4_RefreshKeepsOrReplaces ==
  rBefore # NoEnv =>
    environment =
      IF options.refreshEnvironmentFunction /\ rBefore.uuid # ""
         /\ rRet # NoEnv
      THEN rRet
      ELSE rBefore

\* C4: the refresh function was called and returned nothing
C4_Witness ==
  /\ rBefore # NoEnv
  /\ options.refreshEnvironmentFunction
  /\ rBefore.uuid # ""
  /\ rRet = NoEnv

\* C5: after setHeaders a target holds at most one Content-Type value,
\* whatever its shape (no target holds more than one before).
C5_ContentTypeNeverCombined ==
  hPc = "done" => CTCount(hTarget) <= 1

\* the keys of a target that hold a value and match a key without regard to
\* letter case
Matching(target, key) ==
  {k \in StoreKeys :
     toLowerCase(k) = toLowerCase(key) /\ target.headers[k].vals # <<>>}

\* C6: applying one header that is not Content-Type and whose key matches a
\* held key without regard to letter case leaves a single entry for that
\* name, holding the held values followed by the new value, under the key as
\* configured; on each of the three target shapes.
C6_AppendIsCaseInsensitive ==
  (/\ hPc = "done"
   /\ Len(hEntries) = 1
   /\ ParseHeaderGuard(hEntries[1])
   /\ toLowerCase(hEntries[1].key) # "content-type"
   /\ Matching(hBefore, hEntries[1].key) # {})
  => \E k \in StoreKeys, b \in Matching(hBefore, hEntries[1].key) :
       /\ Matching(hTarget, hEntries[1].key) = {k}
       /\ hTarget.headers[k].vals =
            hBefore.headers[b].vals \o <<parseHeader(hEntries[1])>>
       /\ hTarget.headers[k].name = hEntries[1].key

\* a header entry the merger is to skip: its key is empty, its value is
\* empty, or its key is no valid header name
Skipped(e) == e.key = "" \/ e.value = "" \/ TestHeaderValidity(e.key)

NotSkipped(e) == ~Skipped(e)

\* C7: the entries with an empty key, an empty value or an invalid key
\* change nothing: the target is as if the list held the other entries only,
\* and the template engine is called for those other entries only.
C7_SkippedEntriesChangeNothing ==
  hPc = "done" =>
    /\ hTarget = setHeaders(SelectSeq(hEntries, NotSkipped), hBefore)
    /\ hCalls = Len(SelectSeq(hEntries, NotSkipped))

\* C7: a list whose first entry has an empty value and whose second entry is
\* applied
C7_Witness ==
  /\ hPc = "done"
  /\ Len(hEntries) = 2
  /\ hEntries[1].key = "X-A"
  /\ hEntries[1].value = ""
  /\ NotSkipped(hEntries[2])
  /\ hTarget # hBefore
  /\ hCalls = 1

====
